---- MODULE Spec2Model ----
(***************************************************************************)
(* GoveeBleLights: the per-device connection/command state machine of      *)
(* light.py (GoveeBluetoothLight), the shared queued/active/stale device   *)
(* dictionaries, and the update scheduler of govee_controller.py           *)
(* (GoveeBluetoothController).                                             *)
(*                                                                         *)
(* asyncio is cooperative: the code between two suspending awaits runs     *)
(* atomically, so every action below is one such segment of a coroutine.   *)
(* The BLE transport (establish_connection, write_gatt_char, disconnect,   *)
(* the disconnected callback) and the clock are the environment: their     *)
(* outcomes are drawn with \E.                                             *)
(***************************************************************************)
EXTENDS Integers, Sequences, FiniteSets, TLC

(***************************************************************************)
(* Bounds of the model and constants of the program.                       *)
(***************************************************************************)
Devices == {"d1", "d2"}          \* the configured lights (distinct BLE devices)

MaxIntents == 2                  \* calls the host makes: turn on, turn off, remove

MaxQueueUpdates == 3             \* queue_update calls the lights make

Lights == {"l1", "l2", "l3", "l4"}   \* the lights registered with the controller

PARALLEL_UPDATES == 3            \* govee_controller.py:29

MAX_ACTIVE_DEVICES == 1          \* light.py:39

MAX_RECONNECT_ATTEMPTS == 0      \* light.py:66

DEVICE_PING_INTERVAL == 30       \* light.py:68

max_timeout == 10                \* light.py:447, seconds

max_attempts == 50               \* light.py:448

\* the keyword arguments async_turn_on is called with: each key is absent ({})
\* or carries one value ({v}); the rgb_color (256, 0, 0) fails the range
\* validation and the brightness 300 does not fit a byte with the default
\* model.  brightness_pct is a percentage, color_temp is in mireds
NoArgs == [brightness |-> {}, brightness_pct |-> {}, rgb_color |-> {},
           color_temp |-> {}]

TurnOnArgs == {NoArgs,
               [NoArgs EXCEPT !.brightness = {128}, !.rgb_color = {<<255, 0, 0>>}],
               [NoArgs EXCEPT !.rgb_color = {<<256, 0, 0>>}],
               [NoArgs EXCEPT !.brightness = {300}],
               [NoArgs EXCEPT !.brightness_pct = {50}, !.color_temp = {400}]}

\* what the host asks of the lights when both are driven
PoolArgs == {NoArgs, [NoArgs EXCEPT !.brightness = {300}, !.color_temp = {400}]}

Val(arg) == CHOOSE v \in arg : TRUE

(***************************************************************************)
(* The model catalog (models.py).  The dictionary display of lines 33-65   *)
(* writes the keys of every entry as the bare names led_mode,              *)
(* brightness_max, min_kelvin and max_kelvin, not as string literals: the  *)
(* class body evaluates them as names.  No statement of the module binds   *)
(* them, so as the file stands the display raises NameError, and the class *)
(* ModelInfo, the module and every module that imports it (light.py line   *)
(* 31, govee_controller.py line 15) do not load: MODELS is that outcome.   *)
(* Every lookup of the package names the key by the string of the same     *)
(* spelling (ModelInfo.get at light.py 75-76, 284, 310-311 and 333,        *)
(* get_led_mode and get_brightness_max at models.py 76-86).  ModelTable is *)
(* the display with each key name bound to that string, the one binding    *)
(* under which those lookups find a key; the handlers of light.py are      *)
(* followed with ModelTable as the catalog, that is, as they run once the  *)
(* module loads.                                                           *)
(***************************************************************************)
\* models.py lines 15-17: LedMode
MODE_2 == 2
MODE_D == 13
MODE_1501 == 21

\* models.py lines 1-26: the names the module has bound when the class body
\* of ModelInfo is executed
ModuleNames == {"IntEnum", "LedCommand", "LedMode", "ControlMode"}

\* models.py lines 35-38: the names the display uses as the keys of an entry
KeyNames == {"led_mode", "brightness_max", "min_kelvin", "max_kelvin"}

\* one entry of the display (lines 34-39), the key names evaluated to Bind;
\* of two equal keys the later one stays
ModelEntry(Bind, led_mode, brightness_max, min_kelvin, max_kelvin) ==
    (Bind["max_kelvin"] :> max_kelvin) @@ (Bind["min_kelvin"] :> min_kelvin)
    @@ (Bind["brightness_max"] :> brightness_max) @@ (Bind["led_mode"] :> led_mode)

\* the display of lines 33-65, the key names evaluated to Bind
ModelsWith(Bind) ==
    "default" :> ModelEntry(Bind, MODE_2, 255, 1000, 6500)
    @@ "H6008" :> ModelEntry(Bind, MODE_D, 100, 2700, 6500)
    @@ "H6046" :> ModelEntry(Bind, MODE_1501, 100, 1500, 6500)
    @@ "H6072" :> ModelEntry(Bind, MODE_1501, 100, 0, 0)
    @@ "H6076" :> ModelEntry(Bind, MODE_1501, 100, 3300, 4300)

\* every key name bound to the string the lookups pass as the key
StringKeys == [name \in KeyNames |-> name]

\* models.py lines 33-65 as the class body is executed: a key name that the
\* module has not bound raises NameError
MODELS ==
    IF KeyNames \subseteq ModuleNames THEN ModelsWith(StringKeys) ELSE "NameError"

\* the catalog of a package that has loaded
ModelTable == ModelsWith(StringKeys)

\* models.py lines 67-72: a value that is false in Python (0) counts as absent
ModelInfo_get(model, key) ==
    IF model \in DOMAIN ModelTable /\ ModelTable[model][key] # 0
    THEN ModelTable[model][key]
    ELSE ModelTable["default"][key]

\* the models a config entry is given here: the table's and one it lacks
ModelNames == DOMAIN ModelTable \cup {"H6199"}

\* light.py lines 48-49
clamp(value, min_value, max_value) ==
    LET least == IF value < max_value THEN value ELSE max_value
    IN  IF least > min_value THEN least ELSE min_value

\* light.py lines 51-52
is_in_range(value, min_value, max_value) ==
    value >= min_value /\ value <= max_value

\* kelvin_rgb.py is not part of the sources; by its contract kelvin_to_rgb is
\* a pure function from a temperature to an approximate RGB triple of three
\* bytes, clamped at 1000 K and 40000 K: white at 6600 K, less blue and
\* green the warmer the light, less red and green the colder
kelvin_to_rgb(kelvin) ==
    LET k == clamp(kelvin, 1000, 40000)
    IN  IF k <= 6600
        THEN <<255, 255 - (6600 - k) \div 40, 255 - (6600 - k) \div 22>>
        ELSE <<255 - (k - 6600) \div 400, 255 - (k - 6600) \div 800, 255>>

(***************************************************************************)
(* The arithmetic of _send_brightness (line 285) is Python float           *)
(* arithmetic: brightness / 255 is the IEEE 754 double nearest to the      *)
(* quotient, its product with brightness_max is rounded again, and         *)
(* math.floor takes the integer part.  A positive double is the record     *)
(* [m, e] of its 53 mantissa bits, most significant first and the first    *)
(* one set, and the exponent of the last bit: its value is m * 2^e.  Zero  *)
(* is the record of the empty mantissa.  Rounding is to nearest, ties to   *)
(* even.  Only non-negative values occur; the exponents stay far from the  *)
(* limits of the format.  Every intermediate integer stays below 2^31.     *)
(* A brightness is an int (the brightness argument, 0..255 for the host)   *)
(* or a float (brightness_pct * 255 / 100); the model holds it in          *)
(* hundredths, 12750 for 127.5, and the double it stands for is the one    *)
(* nearest to that many hundredths.                                        *)
(***************************************************************************)
MantissaBits == 53
LimbBits == 16

FloatZero == [m |-> <<>>, e |-> 0]

\* the value of a sequence of bits, most significant first
RECURSIVE BitsToInt(_)
BitsToInt(bits) ==
    IF bits = <<>> THEN 0
    ELSE 2 * BitsToInt(SubSeq(bits, 1, Len(bits) - 1)) + bits[Len(bits)]

\* the bits of a natural number, most significant first, none for 0
RECURSIVE IntToBits(_)
IntToBits(n) == IF n = 0 THEN <<>> ELSE IntToBits(n \div 2) \o <<n % 2>>

\* bits + 1: the last clear bit is set and the bits after it cleared; carry
\* is set when every bit was set
Increment(bits) ==
    LET clear == {i \in 1..Len(bits) : bits[i] = 0}
    IN  IF clear = {}
        THEN [bits |-> [i \in 1..Len(bits) |-> 0], carry |-> 1]
        ELSE LET j == CHOOSE i \in clear : \A k \in clear : k <= i
             IN  [bits |-> [i \in 1..Len(bits) |->
                               IF i < j THEN bits[i] ELSE IF i = j THEN 1 ELSE 0],
                  carry |-> 0]

\* round to nearest, ties to even: m are the MantissaBits kept bits, e the
\* exponent of the last of them, guard the first bit dropped, sticky whether
\* any later bit was set
RoundNearestEven(m, e, guard, sticky) ==
    IF guard = 1 /\ (sticky \/ m[Len(m)] = 1)
    THEN LET up == Increment(m)
         IN  IF up.carry = 1
             THEN [m |-> <<1>> \o SubSeq(up.bits, 1, Len(m) - 1), e |-> e + 1]
             ELSE [m |-> up.bits, e |-> e]
    ELSE [m |-> m, e |-> e]

\* 2^i modulo d
RECURSIVE Pow2Mod(_, _)
Pow2Mod(i, d) ==
    IF i = 0 THEN 1 % d
    ELSE IF i % 2 = 0
         THEN LET h == Pow2Mod(i \div 2, d) IN (h * h) % d
         ELSE (2 * Pow2Mod(i - 1, d)) % d

\* numerator and divisor scaled by powers of two until d <= n < 2 * d
RECURSIVE Normalise(_, _, _)
Normalise(n, d, e) ==
    IF n < d THEN Normalise(2 * n, d, e - 1)
    ELSE IF n >= 2 * d THEN Normalise(n, 2 * d, e + 1)
    ELSE [n |-> n, d |-> d, e |-> e]

\* float(n) / float(d) for naturals n and d > 0, by long division: after the
\* leading bit the remainder is n - d, after i more bits (n - d) * 2^i mod d,
\* and a bit is set when twice the remainder before it reaches d
FloatDiv(n, d) ==
    IF n = 0 THEN FloatZero
    ELSE LET s      == Normalise(n, d, 0)
             Rem(i) == ((s.n - s.d) * Pow2Mod(i, s.d)) % s.d
             m      == [i \in 1..MantissaBits |->
                           IF i = 1 \/ 2 * Rem(i - 2) >= s.d THEN 1 ELSE 0]
             r      == Rem(MantissaBits - 1)
             guard  == IF 2 * r >= s.d THEN 1 ELSE 0
         IN  RoundNearestEven(m, s.e - (MantissaBits - 1), guard,
                              2 * r - guard * s.d # 0)

\* the j-th group of LimbBits bits of bits, counted from the last one as 0
Limb(bits, j) ==
    LET hi == Len(bits) - LimbBits * j
        lo == IF hi - LimbBits + 1 < 1 THEN 1 ELSE hi - LimbBits + 1
    IN  BitsToInt(SubSeq(bits, lo, hi))

\* what the limbs below the j-th carry into it when bits is multiplied by k
RECURSIVE CarryIn(_, _, _)
CarryIn(bits, k, j) ==
    IF j = 0 THEN 0
    ELSE (Limb(bits, j - 1) * k + CarryIn(bits, k, j - 1)) \div 2^LimbBits

\* bits * k for a natural k below 2^(31 - LimbBits), most significant bit first
TimesInt(bits, k) ==
    LET top  == (Len(bits) - 1) \div LimbBits
        V(j) == Limb(bits, j) * k + CarryIn(bits, k, j)
    IN  IntToBits(V(top))
            \o [i \in 1..(LimbBits * top) |->
                   (V(top - 1 - ((i - 1) \div LimbBits))
                        \div 2^(LimbBits - 1 - ((i - 1) % LimbBits))) % 2]

\* x * float(k) for a double x and a natural k
FloatTimesInt(x, k) ==
    IF x.m = <<>> \/ k = 0 THEN FloatZero
    ELSE LET p       == TimesInt(x.m, k)
             dropped == SubSeq(p, MantissaBits + 1, Len(p))
         IN  IF dropped = <<>> THEN [m |-> p, e |-> x.e]
             ELSE RoundNearestEven(SubSeq(p, 1, MantissaBits),
                                   x.e + Len(dropped), dropped[1],
                                   \E i \in 2..Len(dropped) : dropped[i] = 1)

\* math.floor(x) for a double x below 2^31
Floor(x) ==
    IF x.m = <<>> \/ MantissaBits + x.e <= 0 THEN 0
    ELSE BitsToInt(SubSeq(x.m, 1, MantissaBits + x.e))

\* the number formed by the limbs j and above of bits, modulo d
RECURSIVE RemOfLimbs(_, _, _)
RemOfLimbs(bits, d, j) ==
    IF j > (Len(bits) - 1) \div LimbBits THEN 0
    ELSE (RemOfLimbs(bits, d, j + 1) * 2^LimbBits + Limb(bits, j)) % d

\* x / float(d) for a double x and a natural d in 1..2^(30 - LimbBits), by
\* long division of the mantissa, limb by limb, and then of the remainder as
\* in FloatDiv
FloatDivInt(x, d) ==
    IF x.m = <<>> THEN FloatZero
    ELSE LET top     == (Len(x.m) - 1) \div LimbBits
             n       == LimbBits * (top + 1)
             Quot(j) == (RemOfLimbs(x.m, d, j + 1) * 2^LimbBits + Limb(x.m, j)) \div d
             full    == [i \in 1..n |->
                            (Quot(top - (i - 1) \div LimbBits)
                                 \div 2^(LimbBits - 1 - ((i - 1) % LimbBits))) % 2]
             first   == CHOOSE i \in 1..n :
                            full[i] = 1 /\ \A k \in 1..(i - 1) : full[k] = 0
             q       == SubSeq(full, first, n)
             k       == MantissaBits - Len(q)
             Rem(i)  == (RemOfLimbs(x.m, d, 0) * Pow2Mod(i, d)) % d
             m       == q \o [i \in 1..k |-> IF 2 * Rem(i - 1) >= d THEN 1 ELSE 0]
             r       == Rem(k)
             guard   == IF 2 * r >= d THEN 1 ELSE 0
         IN  RoundNearestEven(m, x.e - k, guard, 2 * r - guard * d # 0)

\* the double a brightness held in hundredths stands for: an int, or the
\* float brightness_pct * 255 / 100 of line 231
BrightnessFloat(hundredths) == FloatDiv(hundredths, 100)

\* line 285 with the caller's value sent as it is
scale_brightness_Unscaled(brightness, max) == brightness \div 100

\* line 285: math.floor(brightness / 255 * brightness_max)
scale_brightness(brightness, max) ==
    Floor(FloatTimesInt(FloatDivInt(BrightnessFloat(brightness), 255), max))

VARIABLES
    light,            \* [Devices -> the attributes of a GoveeBluetoothLight]
    queued_devices,   \* keys of the module-level dict queued_devices
    active_devices,   \* keys of active_devices
    stale_devices,    \* keys of stale_devices
    run,              \* run[d][k]: the k-th _send_packets_thread task of d
    call,             \* call[d]: the async_turn_on/off call in flight on d
    intents,          \* number of intent calls made so far
    driven,           \* the lights the host calls
    cb_pending,       \* cb_pending[d]: link lost, disconnected_callback not run yet
    \* GoveeBluetoothController (govee_controller.py)
    queued_or_processing_lights,   \* self._queued_or_processing_lights
    task_queue,       \* self._task_queue, head first
    active_tasks,     \* self._active_tasks: the lights whose run task is in the set
    lock,             \* self._lock: <<>> or the coroutine that holds it
    waiters,          \* the coroutines suspended in self._lock.acquire()
    qu,               \* qu[l]: the queue_update(l) call
    at,               \* at[l]: the _add_task(l) coroutine
    rt,               \* rt[l]: the _async_process_light_update(l) task
    otd,              \* otd[l]: the _on_task_done(task, l) coroutine
    qcalls,           \* number of queue_update calls made so far
    \* one call of _send_bluetooth_data / _async_send_data on its own
    codec,
    \* one ThrottledUpdater (throttled_updater.py) and its update task
    updater,
    \* one call of _send_brightness / _send_rgb_color on its own
    packet

lvars == <<light, queued_devices, active_devices, stale_devices, run, call,
           intents, driven, cb_pending>>

cvars == <<queued_or_processing_lights, task_queue, active_tasks, lock, waiters,
           qu, at, rt, otd, qcalls>>

pvars == <<codec, updater, packet>>

vars == <<lvars, cvars, pvars>>

(***************************************************************************)
(* The state read and written by the synchronous helpers of light.py, as   *)
(* one record, so that a code segment is a composition of operators.       *)
(***************************************************************************)
World == [light |-> light, queued |-> queued_devices,
          active |-> active_devices, stale |-> stale_devices]

Set(w, d, f, v) == [w EXCEPT !.light[d][f] = v]

\* GoveeBluetoothLight.__init__ for a config entry with the given model.
\* _control_mode starts as ColorMode.RGB, which is neither ControlMode
NewLight(model) == [
    model |-> model,
    state |-> "None", brightness |-> 25500, rgb_color |-> <<255, 255, 255>>,
    temperature |-> 4000, control_mode |-> "RGB",
    client |-> "None",
    dirty_state |-> FALSE, dirty_brightness |-> FALSE, dirty_color |-> FALSE,
    temp_state |-> "False", temp_brightness |-> 25500,
    temp_rgb_color |-> <<255, 255, 255>>,
    reconnect |-> 0, ping_roll |-> 0, keep_alive_task |-> 0,
    connection_status |-> "unset", notified |-> TRUE,
    cancelled_power |-> "none"]

\* set_state_attr("connection_status", v); notified records whether
\* updater.request_update() was called since the status last changed.
\* cancelled_power is history too: the value of a power frame that was inside
\* write_gatt_char when its run was cancelled, while the intent it belongs to
\* has not been drained ("none": no such frame)
set_connection_status(w, d, v) ==
    [w EXCEPT !.light[d].connection_status = v, !.light[d].notified = FALSE]

\* self.updater.request_update()
request_update(w, d) == Set(w, d, "notified", TRUE)

is_dirty(w, d) ==
    w.light[d].dirty_state \/ w.light[d].dirty_brightness \/ w.light[d].dirty_color

add_to_queue(w, d) ==
    [w EXCEPT !.active = @ \ {d}, !.stale = @ \ {d}, !.queued = @ \cup {d}]

add_to_active(w, d) ==
    [w EXCEPT !.queued = @ \ {d}, !.stale = @ \ {d}, !.active = @ \cup {d}]

\* _add_to_stale without the removal from active_devices
add_to_stale_KeepsActive(w, d) ==
    [w EXCEPT !.queued = @ \ {d}, !.stale = @ \cup {d}]

add_to_stale(w, d) ==
    [w EXCEPT !.queued = @ \ {d}, !.active = @ \ {d}, !.stale = @ \cup {d}]

remove_device_from_dicts(w, d) ==
    [w EXCEPT !.queued = @ \ {d}, !.active = @ \ {d}, !.stale = @ \ {d}]

should_close_stale_connection(w, d) ==
    IF w.light[d].ping_roll > 0 THEN TRUE
    ELSE IF w.light[d].client # "connected" THEN TRUE
    ELSE ~(Cardinality(w.active) + Cardinality(w.stale) < MAX_ACTIVE_DEVICES)

\* the three range checks of _send_rgb_color
ValidRGB(c) == \A i \in 1..3 : c[i] >= 0 /\ c[i] <= 255

(***************************************************************************)
(* A _send_packets_thread task.  pc is the await the coroutine is          *)
(* suspended at:                                                           *)
(*   start      created by async_create_task, not run yet                  *)
(*   sleep      one of the asyncio.sleep calls that end an iteration       *)
(*   conn_disc  client.disconnect() in _handle_disconnect, from _connect   *)
(*   conn_est   bleak_retry_connector.establish_connection                 *)
(*   fail_disc  client.disconnect(), from the reconnect-ceiling branch     *)
(*   wr         client.write_gatt_char                                     *)
(*   wr_disc    client.disconnect(), after a failed write                  *)
(*   ka_disc    client.disconnect(), closing a stale connection            *)
(*   cancelling cancel() was called while the task was inside a transport  *)
(*              call; the CancelledError has not ended the task yet        *)
(*   done       the task has ended; none: not created                      *)
(* task_running is the local of that name; cat/ka say which category the   *)
(* iteration writes and whether it is a keep-alive write; sent is the      *)
(* outcome of the iteration's send.  all3, first and fails are history:    *)
(* whether the run was created with all three flags dirty, the category of *)
(* the first frame it handed to the transport, and the number of failed    *)
(* connection attempts it has made; delays, the backoff sleeps of line 497 *)
(* it has slept, in hundredths of a second and in their order; took_over,  *)
(* whether the intent call that created the run found an earlier run not   *)
(* done and cancelled it;                                                  *)
(* rejected, the category whose frame bytes(payload) refused with a        *)
(* ValueError in this run, and retried, whether the run went on to send    *)
(* that category again.                                                    *)
(***************************************************************************)
NoTask == [pc |-> "none", task_running |-> FALSE, cat |-> "none", ka |-> FALSE,
           sent |-> "none", all3 |-> FALSE, first |-> "none", fails |-> 0,
           delays |-> <<>>, took_over |-> FALSE, rejected |-> "none",
           retried |-> FALSE]

DoneTask == [NoTask EXCEPT !.pc = "done"]

NewTask(w, d) ==
    [NoTask EXCEPT !.pc = "start",
                   !.all3 = w.light[d].dirty_state /\ w.light[d].dirty_brightness
                            /\ w.light[d].dirty_color]

TransportPcs == {"conn_disc", "conn_est", "fail_disc", "wr", "wr_disc", "ka_disc"}

Alive(t) == t.pc \notin {"none", "done"}

Sleep(w, t) == [w |-> w, t |-> [t EXCEPT !.pc = "sleep"]]

\* _handle_disconnect up to its await: only a client that is set and reports
\* itself NOT connected is disconnected
handle_disconnect_begin(w, d) ==
    IF w.light[d].client = "disconnected"
    THEN set_connection_status(remove_device_from_dicts(w, d), d, "Disconnecting")
    ELSE w

\* _send_bluetooth_data up to write_gatt_char.  A client of None raises
\* AttributeError at once: caught, _handle_disconnect does nothing, False.
Issue(w, d, t, cat, ka) ==
    IF w.light[d].client = "None"
    THEN Sleep(w, [t EXCEPT !.cat = cat, !.ka = ka, !.sent = "fail"])
    ELSE [w |-> w,
          t |-> [t EXCEPT !.pc = "wr", !.cat = cat, !.ka = ka,
                          !.first = IF @ = "none" THEN cat ELSE @]]

\* the brightnesses the lights of the specifications hold, in hundredths: the
\* one of __init__ and those of the host's calls
LightBrightnesses ==
    {NewLight("default").brightness}
        \cup UNION {{100 * b : b \in args.brightness}
                        \cup {255 * pct : pct \in args.brightness_pct} :
                    args \in TurnOnArgs \cup PoolArgs}

\* scale_brightness of these brightnesses for the maxima of the catalog,
\* computed once: the triples of a brightness, a maximum and the byte
ScaledBrightness ==
    {<<x[1], x[2], scale_brightness(x[1], x[2])>> :
        x \in LightBrightnesses \X {ModelTable[m]["brightness_max"] : m \in DOMAIN ModelTable}}

\* _send_brightness: the value is scaled to the range of the light's model
\* and put into the payload; bytes(payload) in _send_bluetooth_data raises
\* ValueError for a value outside 0..255, which _send_brightness catches:
\* False, nothing written.  value is in hundredths
send_brightness(w, d, t0, value, ka) ==
    LET brightness_max == ModelInfo_get(w.light[d].model, "brightness_max")
        known == {x \in ScaledBrightness : x[1] = value /\ x[2] = brightness_max}
        byte == IF known # {} THEN (CHOOSE x \in known : TRUE)[3]
                ELSE scale_brightness(value, brightness_max)
        t == [t0 EXCEPT !.retried = @ \/ t0.rejected = "brightness"]
    IN  IF byte >= 0 /\ byte <= 255
        THEN Issue(w, d, t, "brightness", ka)
        ELSE Sleep(w, [t EXCEPT !.cat = "brightness", !.ka = ka, !.sent = "rejected",
                                !.rejected = "brightness"])

\* _send_rgb_color: a temperature inside the model's range is sent with the
\* colour bytes 0xFF; the validation returns (does not raise) a ValueError
\* object, which the caller tests with "if not"
send_rgb_color(w, d, t, ka) ==
    LET L == w.light[d]
        as_white == /\ L.control_mode = "TEMPERATURE"
                    /\ is_in_range(L.temperature,
                                   ModelInfo_get(L.model, "min_kelvin"),
                                   ModelInfo_get(L.model, "max_kelvin"))
        rgb == IF as_white THEN <<255, 255, 255>> ELSE L.temp_rgb_color
    IN
    IF ValidRGB(rgb)
    THEN Issue(w, d, t, "color", ka)
    ELSE Sleep(IF ka THEN w ELSE Set(w, d, "dirty_color", FALSE),
               [t EXCEPT !.cat = "color", !.ka = ka, !.sent = "invalid"])

\* the keep-alive branch after the stale-connection check (lines 545-566)
KeepAliveRest(w0, d, t, elapsed) ==
    LET w  == IF w0.light[d].state = "True" THEN add_to_stale(w0, d) ELSE w0
        pr == w.light[d].ping_roll + 1
        w1 == Set(w, d, "ping_roll", pr)
        ping_interval == DEVICE_PING_INTERVAL * 3
    IN  IF ~elapsed THEN Sleep(w, t)
        ELSE IF pr % ping_interval = 0 \/ w.light[d].state = "False"
             THEN Issue(w1, d, t, "power", TRUE)
        ELSE IF pr % ping_interval = 1
             THEN send_brightness(w1, d, t, w1.light[d].brightness, TRUE)
        ELSE IF pr % ping_interval = 2 THEN send_rgb_color(w1, d, t, TRUE)
        ELSE Sleep(w1, t)

\* the keep-alive branch (lines 530-544)
KeepAlive(w, d, t, elapsed) ==
    IF should_close_stale_connection(w, d)
    THEN LET w1 == Set(w, d, "ping_roll", 0)
             t1 == [t EXCEPT !.task_running = FALSE]
         IN  IF w1.light[d].client = "disconnected"
             THEN [w |-> handle_disconnect_begin(w1, d),
                   t |-> [t1 EXCEPT !.pc = "ka_disc"]]
             ELSE KeepAliveRest(w1, d, t1, elapsed)
    ELSE KeepAliveRest(IF w.light[d].ping_roll % 30 = 0
                       THEN request_update(w, d) ELSE w, d, t, elapsed)

\* SendPackets with the brightness test put before the power test
SendPackets_BrightnessFirst(w0, d, t, elapsed) ==
    LET w == IF is_dirty(w0, d) THEN add_to_active(w0, d) ELSE w0
        L == w.light[d]
    IN  IF L.dirty_brightness
        THEN send_brightness(Set(w, d, "brightness", L.temp_brightness), d, t,
                             L.temp_brightness, FALSE)
        ELSE IF L.dirty_state
        THEN Issue(Set(w, d, "state", L.temp_state), d, t, "power", FALSE)
        ELSE IF L.dirty_color
        THEN send_rgb_color(Set(w, d, "rgb_color", L.temp_rgb_color), d, t, FALSE)
        ELSE KeepAlive(w, d, t, elapsed)

\* "Send the packets" (lines 502-529): one category, power > brightness > color
SendPackets(w0, d, t, elapsed) ==
    LET w == IF is_dirty(w0, d) THEN add_to_active(w0, d) ELSE w0
        L == w.light[d]
    IN  IF L.dirty_state
        THEN Issue(Set(w, d, "state", L.temp_state), d, t, "power", FALSE)
        ELSE IF L.dirty_brightness
        THEN send_brightness(Set(w, d, "brightness", L.temp_brightness), d, t,
                             L.temp_brightness, FALSE)
        ELSE IF L.dirty_color
        THEN send_rgb_color(Set(w, d, "rgb_color", L.temp_rgb_color), d, t, FALSE)
        ELSE KeepAlive(w, d, t, elapsed)

\* random.uniform(0.1, 0.3) of line 496, in hundredths
Jitters == {10, 15, 20, 30}

\* the backoff sleep of lines 495-498, after the device went back to the queue
Backoff(w, d, t, uniform) ==
    Sleep(add_to_queue(w, d),
          [t EXCEPT !.delays = Append(@, 90 + w.light[d].reconnect * uniform)])

\* ConnectFailed without the ceiling test: every failure backs off and retries
ConnectFailed_NoCeiling(w0, d, t0, uniform) ==
    Backoff(Set(w0, d, "reconnect", w0.light[d].reconnect + 1), d,
            [t0 EXCEPT !.fails = @ + 1], uniform)

\* ConnectFailed with the ceiling tested before _reconnect is counted up
ConnectFailed_TestBeforeIncrement(w0, d, t0, uniform) ==
    LET w == Set(w0, d, "reconnect", w0.light[d].reconnect + 1)
        t == [t0 EXCEPT !.fails = @ + 1]
    IN  IF w0.light[d].reconnect > MAX_RECONNECT_ATTEMPTS
        THEN LET t1 == [t EXCEPT !.task_running = FALSE]
             IN  IF w.light[d].client = "disconnected"
                 THEN [w |-> handle_disconnect_begin(w, d),
                       t |-> [t1 EXCEPT !.pc = "fail_disc"]]
                 ELSE Sleep(w, t1)
        ELSE Backoff(w, d, t, uniform)

\* _connect returned None/False (lines 486-498)
ConnectFailed(w0, d, t0, uniform) ==
    LET w == Set(w0, d, "reconnect", w0.light[d].reconnect + 1)
        t == [t0 EXCEPT !.fails = @ + 1]
    IN  IF w.light[d].reconnect > MAX_RECONNECT_ATTEMPTS
        THEN LET t1 == [t EXCEPT !.task_running = FALSE]
             IN  IF w.light[d].client = "disconnected"
                 THEN [w |-> handle_disconnect_begin(w, d),
                       t |-> [t1 EXCEPT !.pc = "fail_disc"]]
                 ELSE Sleep(w, t1)
        ELSE Backoff(w, d, t, uniform)

\* one iteration of the while loop, from its head to the first await that
\* suspends (lines 476-485 and _connect lines 587-616)
LoopBody(w0, d, t0, elapsed) ==
    LET t  == [t0 EXCEPT !.sent = "none", !.cat = "none", !.ka = FALSE]
        w1 == IF d \notin w0.active /\ d \notin w0.stale
              THEN add_to_queue(w0, d) ELSE w0
        c  == w1.light[d].client
    IN  IF is_dirty(w1, d) /\ c = "disconnected"
        THEN [w |-> handle_disconnect_begin(w1, d), t |-> [t EXCEPT !.pc = "conn_disc"]]
        ELSE IF is_dirty(w1, d) /\ c = "None"
        THEN [w |-> set_connection_status(w1, d, "Establishing"),
              t |-> [t EXCEPT !.pc = "conn_est"]]
        ELSE SendPackets(w1, d, t, elapsed)

\* a code segment's result becomes the next state
Commit(r, d, k) ==
    /\ light' = r.w.light
    /\ queued_devices' = r.w.queued
    /\ active_devices' = r.w.active
    /\ stale_devices' = r.w.stale
    /\ run' = [run EXCEPT ![d][k] = IF r.t.pc = "done" THEN DoneTask ELSE r.t]

(***************************************************************************)
(* The run task's steps.                                                   *)
(***************************************************************************)
\* first step of _send_packets_thread: lines 471-472, then the first iteration
TaskStart(d, k) ==
    /\ run[d][k].pc = "start"
    /\ \E elapsed \in BOOLEAN :
         Commit(LoopBody(Set(World, d, "reconnect", 0), d,
                         [run[d][k] EXCEPT !.task_running = TRUE], elapsed), d, k)
    /\ UNCHANGED <<call, intents, driven, cb_pending>>

\* a sleep ends with task_running still True: the next iteration
LoopIteration(d, k) ==
    /\ run[d][k].pc = "sleep"
    /\ run[d][k].task_running
    /\ \E elapsed \in BOOLEAN : Commit(LoopBody(World, d, run[d][k], elapsed), d, k)
    /\ UNCHANGED <<call, intents, driven, cb_pending>>

\* a sleep ends with task_running False: the while loop and the task end
TaskExit(d, k) ==
    /\ run[d][k].pc = "sleep"
    /\ ~run[d][k].task_running
    /\ run' = [run EXCEPT ![d][k] = DoneTask]
    /\ UNCHANGED <<light, queued_devices, active_devices, stale_devices, call,
                   intents, driven, cb_pending>>

\* establish_connection returns a connected client or raises (lines 616-633)
EstablishConnection(d, k) ==
    /\ run[d][k].pc = "conn_est"
    /\ \E ok \in BOOLEAN, elapsed \in BOOLEAN, uniform \in Jitters :
         Commit(IF ok
                THEN SendPackets(set_connection_status(
                                     Set(World, d, "client", "connected"),
                                     d, "Connected"), d, run[d][k], elapsed)
                ELSE ConnectFailed(remove_device_from_dicts(
                                     set_connection_status(World, d, "Failed to connect"),
                                     d), d, run[d][k], uniform),
                d, k)
    /\ UNCHANGED <<call, intents, driven, cb_pending>>

\* _handle_disconnect after its await (lines 643-649)
handle_disconnect_end(w, d, ok) ==
    IF ok
    THEN request_update(set_connection_status(Set(w, d, "client", "None"),
                                              d, "Disconnected"), d)
    ELSE set_connection_status(w, d, "Failed to disconnect")

\* client.disconnect() returns or raises; the caller of _handle_disconnect goes on
DisconnectDone(d, k) ==
    /\ run[d][k].pc \in {"conn_disc", "fail_disc", "wr_disc", "ka_disc"}
    /\ \E ok \in BOOLEAN, elapsed \in BOOLEAN, uniform \in Jitters :
         LET w == handle_disconnect_end(World, d, ok)
             t == run[d][k]
         IN  Commit(CASE t.pc = "conn_disc" ->
                           IF w.light[d].client # "None"
                           THEN ConnectFailed(w, d, t, uniform)   \* "Aborted connect"
                           ELSE [w |-> set_connection_status(w, d, "Establishing"),
                                 t |-> [t EXCEPT !.pc = "conn_est"]]
                      [] t.pc = "ka_disc" -> KeepAliveRest(w, d, t, elapsed)
                      [] OTHER -> Sleep(w, t),
                    d, k)
    /\ UNCHANGED <<call, intents, driven, cb_pending>>

\* lines 512-513, 520-521, 528-529
clear_dirty(w, d, cat) ==
    CASE cat = "power"      -> Set(w, d, "dirty_state", FALSE)
      [] cat = "brightness" -> Set(w, d, "dirty_brightness", FALSE)
      [] cat = "color"      -> Set(w, d, "dirty_color", FALSE)

\* write_gatt_char returns (lines 680-684) or raises (lines 685-690), and the
\* caller in the loop goes on
WriteResult(w, d, t, ok) ==
    IF ok
    THEN Sleep(IF t.ka THEN request_update(w, d)
               ELSE clear_dirty(request_update(w, d), d, t.cat),
               [t EXCEPT !.sent = "ok"])
    ELSE IF w.light[d].client = "disconnected"
    THEN [w |-> handle_disconnect_begin(w, d),
          t |-> [t EXCEPT !.pc = "wr_disc", !.sent = "fail"]]
    ELSE Sleep(w, [t EXCEPT !.sent = "fail"])

WriteDone(d, k) ==
    /\ run[d][k].pc = "wr"
    /\ \E ok \in BOOLEAN :
         /\ ok => light[d].client = "connected"
         /\ Commit(WriteResult(World, d, run[d][k], ok), d, k)
    /\ UNCHANGED <<call, intents, driven, cb_pending>>

\* the CancelledError raised inside a transport call ends the task
TaskCancelled(d, k) ==
    /\ run[d][k].pc = "cancelling"
    /\ run' = [run EXCEPT ![d][k] = DoneTask]
    /\ UNCHANGED <<light, queued_devices, active_devices, stale_devices, call,
                   intents, driven, cb_pending>>

(***************************************************************************)
(* The transport: the link drops, and bleak later runs the callback.       *)
(***************************************************************************)
LinkLost(d) ==
    /\ light[d].client = "connected"
    /\ light' = [light EXCEPT ![d].client = "disconnected"]
    /\ cb_pending' = [cb_pending EXCEPT ![d] = TRUE]
    /\ UNCHANGED <<queued_devices, active_devices, stale_devices, run, call, intents,
                   driven>>

\* _connect.disconnected_callback (lines 597-606)
disconnected_callback(w, d) ==
    request_update(
        [set_connection_status(remove_device_from_dicts(w, d), d, "Disconnected")
            EXCEPT !.light[d].client = "None", !.light[d].reconnect = 0,
                   !.light[d].ping_roll = 0], d)

DisconnectedCallback(d) ==
    /\ cb_pending[d]
    /\ LET w == disconnected_callback(World, d)
       IN  /\ light' = w.light
           /\ queued_devices' = w.queued
           /\ active_devices' = w.active
           /\ stale_devices' = w.stale
    /\ cb_pending' = [cb_pending EXCEPT ![d] = FALSE]
    /\ UNCHANGED <<run, call, intents, driven>>

(***************************************************************************)
(* async_turn_on / async_turn_off and _cancel_packets_thread.              *)
(***************************************************************************)
\* lines 217-252.  The brightness is held in hundredths: an int brightness
\* b as 100 * b, the float brightness_pct * 255 / 100 as brightness_pct * 255
\* (50 gives 127.5, held as 12750).  1000000 / color_temp is a float, clamped
\* to the class attributes _attr_min/max_color_temp_kelvin (lines 75-76) and
\* truncated by int(): truncating before the clamp gives the same integer
turn_on_attrs(w, d, args) ==
    LET w1 == [w EXCEPT !.light[d].temp_state = "True", !.light[d].dirty_state = TRUE,
                        !.light[d].cancelled_power =
                            IF w.light[d].dirty_state THEN @ ELSE "none"]
        w2 == IF args.brightness # {}
              THEN [w1 EXCEPT !.light[d].temp_brightness =
                                  Val(args.brightness) * 100,
                              !.light[d].dirty_brightness = TRUE]
              ELSE IF args.brightness_pct # {}
              THEN [w1 EXCEPT !.light[d].temp_brightness =
                                  Val(args.brightness_pct) * 255,
                              !.light[d].dirty_brightness = TRUE]
              ELSE w1
        kelvin == clamp(1000000 \div Val(args.color_temp),
                        ModelInfo_get("default", "min_kelvin"),
                        ModelInfo_get("default", "max_kelvin"))
    IN  IF args.rgb_color # {}
        THEN [w2 EXCEPT !.light[d].control_mode = "COLOR",
                        !.light[d].temp_rgb_color = Val(args.rgb_color),
                        !.light[d].dirty_color = TRUE]
        ELSE IF args.color_temp # {}
        THEN [w2 EXCEPT !.light[d].control_mode = "TEMPERATURE",
                        !.light[d].temperature = kelvin,
                        !.light[d].dirty_color = TRUE,
                        !.light[d].temp_rgb_color = kelvin_to_rgb(kelvin)]
        ELSE w2

\* lines 261-263
turn_off_attrs(w, d) ==
    [w EXCEPT !.light[d].temp_state = "False", !.light[d].dirty_state = TRUE,
              !.light[d].cancelled_power = IF w.light[d].dirty_state THEN @ ELSE "none"]

\* Task.cancel(): a task suspended in a sleep (or not started) ends without
\* running any more of the coroutine; inside a transport call the
\* CancelledError is delivered when that call unwinds
cancel(t) ==
    IF t.pc \in {"start", "sleep"} THEN DoneTask
    ELSE IF t.pc \in TransportPcs THEN [NoTask EXCEPT !.pc = "cancelling"]
    ELSE t

\* the least time, in tenths of a second, that n passes of the cancel loop
\* have slept: sleep(0.1 + 0.1 * attempts) after each cancel()
SleptTenths(n) == n + (n * (n + 1)) \div 2

\* the outcomes of "time.time() >= _start_time + _max_timeout" at pass n:
\* false before any sleep, true once the sleeps alone add up to the timeout
TimedOutChoices(n) ==
    IF n = 0 THEN {FALSE}
    ELSE IF SleptTenths(n) >= max_timeout * 10 THEN {TRUE}
    ELSE BOOLEAN

\* lines 451-464 with the give-up branch returning True
cancel_packets_thread_GivesUpAsTrue(w, d, rd, attempts, timed_out) ==
    LET kat == w.light[d].keep_alive_task
    IN  IF kat # 0 /\ rd[kat].pc # "done"
        THEN IF timed_out \/ attempts >= max_attempts
             THEN [w |-> w, rd |-> rd, ret |-> "True", attempts |-> attempts]
             ELSE [w |-> IF rd[kat].pc = "wr" /\ rd[kat].cat = "power" /\ ~rd[kat].ka
                         THEN Set(w, d, "cancelled_power", w.light[d].state)
                         ELSE w,
                   rd |-> [rd EXCEPT ![kat] = cancel(@)],
                   ret |-> "sleep", attempts |-> attempts + 1]
        ELSE [w |-> [w EXCEPT !.light[d].reconnect = 0,
                              !.light[d].keep_alive_task = 0],
              rd |-> rd, ret |-> "True", attempts |-> attempts]

\* one evaluation of the while loop of _cancel_packets_thread (lines 451-464):
\* ret is "True"/"False" when the method returns, "sleep" when it sleeps
cancel_packets_thread(w, d, rd, attempts, timed_out) ==
    LET kat == w.light[d].keep_alive_task
    IN  IF kat # 0 /\ rd[kat].pc # "done"
        THEN IF timed_out \/ attempts >= max_attempts
             THEN [w |-> w, rd |-> rd, ret |-> "False", attempts |-> attempts]
             ELSE [w |-> IF rd[kat].pc = "wr" /\ rd[kat].cat = "power" /\ ~rd[kat].ka
                         THEN Set(w, d, "cancelled_power", w.light[d].state)
                         ELSE w,
                   rd |-> [rd EXCEPT ![kat] = cancel(@)],
                   ret |-> "sleep", attempts |-> attempts + 1]
        ELSE [w |-> [w EXCEPT !.light[d].reconnect = 0,
                              !.light[d].keep_alive_task = 0],
              rd |-> rd, ret |-> "True", attempts |-> attempts]

\* an intent call of a light: idle, or in the sleep of the cancel loop after
\* attempts passes, on its way to creating run task k.  ret and kat are what
\* the last _cancel_packets_thread returned and what _keep_alive_task was
\* when it returned (0 for None)
NoCall == [pc |-> "idle", attempts |-> 0, k |-> 0, ret |-> "none", kat |-> 0]

\* lines 254-255 / 265-266: whatever _cancel_packets_thread returned, a new
\* run task is created and becomes _keep_alive_task
IntentTail(w0, d, attempts, timed_out, k) ==
    LET r == cancel_packets_thread(w0, d, run[d], attempts, timed_out)
        w == IF r.ret = "sleep" THEN r.w
             ELSE Set(r.w, d, "keep_alive_task", k)
    IN  /\ light' = w.light
        /\ queued_devices' = w.queued
        /\ active_devices' = w.active
        /\ stale_devices' = w.stale
        /\ run' = [run EXCEPT ![d] = IF r.ret = "sleep" THEN r.rd
                                     ELSE [r.rd EXCEPT ![k] =
                                             [NewTask(r.w, d) EXCEPT
                                                 !.took_over = r.attempts > 0]]]
        /\ call' = [call EXCEPT ![d] = IF r.ret = "sleep"
                                       THEN [NoCall EXCEPT !.pc = "cancelling",
                                                           !.attempts = r.attempts,
                                                           !.k = k]
                                       ELSE [NoCall EXCEPT
                                                !.ret = r.ret,
                                                !.kat = r.w.light[d].keep_alive_task]]

async_turn_on(d, args) ==
    /\ call[d].pc = "idle"
    /\ d \in driven
    /\ intents < MaxIntents
    /\ intents' = intents + 1
    /\ IntentTail(turn_on_attrs(World, d, args), d, 0, FALSE, intents + 1)
    /\ UNCHANGED <<driven, cb_pending>>

async_turn_off(d) ==
    /\ call[d].pc = "idle"
    /\ d \in driven
    /\ intents < MaxIntents
    /\ intents' = intents + 1
    /\ IntentTail(turn_off_attrs(World, d), d, 0, FALSE, intents + 1)
    /\ UNCHANGED <<driven, cb_pending>>

\* lines 202-207: the entity is removed; its run task, if it has one, is
\* cancelled and _keep_alive_task keeps naming it.  The host calls a removed
\* entity no more; the removal is one of the calls the host makes
async_will_remove_from_hass(d) ==
    /\ d \in driven
    /\ intents < MaxIntents
    /\ intents' = intents + 1
    /\ driven' = driven \ {d}
    /\ LET kat == light[d].keep_alive_task
       IN  run' = IF kat # 0 THEN [run EXCEPT ![d][kat] = cancel(@)] ELSE run
    /\ UNCHANGED <<light, queued_devices, active_devices, stale_devices, call,
                   cb_pending>>

\* the sleep of the cancel loop ends
CancelWake(d) ==
    /\ call[d].pc = "cancelling"
    /\ \E timed_out \in TimedOutChoices(call[d].attempts) :
         IntentTail(World, d, call[d].attempts, timed_out, call[d].k)
    /\ UNCHANGED <<intents, driven, cb_pending>>

(***************************************************************************)
(* The device state machines together.                                     *)
(***************************************************************************)
Runs == 1..MaxIntents       \* the k-th intent call creates run task k

\* the lights after __init__, models[d] being the model of d's config entry
InitLightsAs(models) ==
    /\ light = [d \in Devices |-> NewLight(models[d])]
    /\ queued_devices = {}
    /\ active_devices = {}
    /\ stale_devices = {}
    /\ run = [d \in Devices |-> [k \in Runs |-> NoTask]]
    /\ call = [d \in Devices |-> NoCall]
    /\ intents = 0
    /\ cb_pending = [d \in Devices |-> FALSE]

\* config entries without a model: "default" (line 89)
InitLights == InitLightsAs([d \in Devices |-> "default"])

\* GoveeBluetoothController.__init__
InitController ==
    /\ queued_or_processing_lights = {}
    /\ task_queue = <<>>
    /\ active_tasks = {}
    /\ lock = <<>>
    /\ waiters = {}
    /\ qu = [l \in Lights |-> "none"]
    /\ at = [l \in Lights |-> [pc |-> "none", via |-> "none"]]
    /\ rt = [l \in Lights |-> "none"]
    /\ otd = [l \in Lights |-> "none"]
    /\ qcalls = 0

\* no payload is being built outside the runs
NoPacket == [pc |-> "none", fn |-> "none", model |-> "default", brightness |-> 0,
             rgb_color |-> <<0, 0, 0>>, control_mode |-> "COLOR",
             temperature |-> 4000, cmd |-> 0, payload |-> <<>>]

\* throttled_updater.py lines 5-7
MIN_UPDATE_SECONDS == 1
MAX_UPDATE_SECONDS == 60
ADDITIONAL_DELAY_PER_UPDATE == 1

\* no manage_update task
NoUpdateTask == [pc |-> "none", remaining |-> 0, delay |-> 0, since |-> 0,
                 calls |-> 0, invocations |-> 0]

\* ThrottledUpdater.__init__ (lines 10-18).  elapsed is now - last_update in
\* whole seconds, counted up to MAX_UPDATE_SECONDS and no further (every test
\* of the class compares it with a value of at most MAX_UPDATE_SECONDS);
\* last_update = datetime.min is such an elapsed time.  pending counts the
\* manage_update tasks that were created and are not done.
NewUpdater == [elapsed |-> MAX_UPDATE_SECONDS, successive_updates |-> 0,
               update_task |-> NoUpdateTask, pending |-> 0]

\* no frame is being sent outside the runs
NoSend == [pc |-> "none", impl |-> "none", cmd |-> 0, payload |-> <<>>,
           frame |-> <<>>, client |-> "connected", last_device_update |-> 0,
           outcome |-> "none"]

\* one light is driven, the other is configured and never called
Init ==
    /\ InitLights
    /\ driven = {"d1"}
    /\ InitController
    /\ codec = NoSend
    /\ updater = NewUpdater
    /\ packet = NoPacket

\* every light is driven; d2 is a H6008, whose brightness range is 0..100
InitPool ==
    /\ InitLightsAs([d \in Devices |-> IF d = "d1" THEN "default" ELSE "H6008"])
    /\ driven = Devices
    /\ InitController
    /\ codec = NoSend
    /\ updater = NewUpdater
    /\ packet = NoPacket

\* the steps of the lights, the host calling async_turn_on with one of Args
LightSteps(Args) ==
    \E d \in Devices :
        \/ \E args \in Args : async_turn_on(d, args)
        \/ async_turn_off(d)
        \/ async_will_remove_from_hass(d)
        \/ CancelWake(d)
        \/ LinkLost(d)
        \/ DisconnectedCallback(d)
        \/ \E k \in Runs :
             \/ TaskStart(d, k)
             \/ LoopIteration(d, k)
             \/ TaskExit(d, k)
             \/ EstablishConnection(d, k)
             \/ DisconnectDone(d, k)
             \/ WriteDone(d, k)
             \/ TaskCancelled(d, k)

LightNext == LightSteps(TurnOnArgs)

Next == LightNext /\ UNCHANGED <<cvars, pvars>>

Spec == Init /\ [][Next]_vars

PoolNext == LightSteps(PoolArgs) /\ UNCHANGED <<cvars, pvars>>

SpecPool == InitPool /\ [][PoolNext]_vars

(***************************************************************************)
(* GoveeBluetoothController: the update scheduler.  A run task is          *)
(* identified by its light.  The coroutines of a light:                    *)
(*   qu[l]   queue_update(l): wait_lock while the call is suspended in     *)
(*           acquire, else what the last call found: none (no call yet),   *)
(*           added (the light was not tracked), tracked (it was)           *)
(*   at[l]   _add_task(l):     none, pending (created by async_create_task *)
(*           and not run yet), wait_lock, returned; via says who created   *)
(*           it: queue_update, or the harness of SpecCtlDirect             *)
(*   rt[l]   _async_process_light_update(l): none, running, done           *)
(*   otd[l]  _on_task_done(task, l): none, pending, wait_lock, or          *)
(*           manage_wait (holds the lock and is suspended in the acquire   *)
(*           of _manage_task_queue)                                        *)
(* asyncio.Lock is not reentrant: acquire() returns at once only when the  *)
(* lock is not held and nobody waits for it, and suspends the caller       *)
(* otherwise.  queue_update and _add_task hold the lock over no suspending *)
(* await (the queue is unbounded, so put() does not suspend), so each is   *)
(* one action that takes and releases the lock, and a release never finds  *)
(* a waiter to wake: the waiters are kept as a set.                        *)
(***************************************************************************)
Ctl ==
    [queued_or_processing_lights |-> queued_or_processing_lights,
     task_queue |-> task_queue, active_tasks |-> active_tasks,
     lock |-> lock, waiters |-> waiters, at |-> at, rt |-> rt, otd |-> otd]

Unlocked == <<>>

\* asyncio.Lock.acquire returns without suspending
LockFree(c) == c.lock = Unlocked /\ c.waiters = {}

\* the coroutine who suspends in acquire()
WaitLock(c, who) == [c EXCEPT !.waiters = @ \cup {who}]

\* queue_update without the membership test
queue_update_AlwaysSpawns(c, l) ==
    [c EXCEPT !.queued_or_processing_lights = @ \cup {l},
              !.at[l] = [pc |-> "pending", via |-> "queue_update"]]

\* queue_update, the body under the lock
queue_update(c, l) ==
    IF l \notin c.queued_or_processing_lights
    THEN [c EXCEPT !.queued_or_processing_lights = @ \cup {l},
                   !.at[l] = [pc |-> "pending", via |-> "queue_update"]]
    ELSE c

\* _add_task with a capacity test that lets one task too many through
add_task_OverCapacity(c, l) ==
    IF l \in c.queued_or_processing_lights
    THEN c
    ELSE LET c1 == [c EXCEPT !.queued_or_processing_lights = @ \cup {l}] IN
         IF Cardinality(c1.active_tasks) > PARALLEL_UPDATES
         THEN [c1 EXCEPT !.task_queue = Append(@, l)]
         ELSE [c1 EXCEPT !.active_tasks = @ \cup {l}, !.rt[l] = "running"]

\* _add_task, the body under the lock
add_task(c, l) ==
    IF l \in c.queued_or_processing_lights
    THEN c
    ELSE LET c1 == [c EXCEPT !.queued_or_processing_lights = @ \cup {l}] IN
         IF Cardinality(c1.active_tasks) >= PARALLEL_UPDATES
         THEN [c1 EXCEPT !.task_queue = Append(@, l)]
         ELSE [c1 EXCEPT !.active_tasks = @ \cup {l}, !.rt[l] = "running"]

\* _on_task_done up to its first suspension: the task leaves _active_tasks;
\* with the lock taken the light leaves the set and _manage_task_queue
\* suspends in acquire() on the lock its caller holds
on_task_done(c, l) ==
    LET c1 == [c EXCEPT !.active_tasks = @ \ {l}] IN
    IF LockFree(c1)
    THEN WaitLock([c1 EXCEPT !.lock = <<"_on_task_done", l>>,
                             !.queued_or_processing_lights = @ \ {l},
                             !.otd[l] = "manage_wait"],
                  <<"_manage_task_queue", l>>)
    ELSE WaitLock([c1 EXCEPT !.otd[l] = "wait_lock"], <<"_on_task_done", l>>)

CommitCtl(c) ==
    /\ queued_or_processing_lights' = c.queued_or_processing_lights
    /\ task_queue' = c.task_queue
    /\ active_tasks' = c.active_tasks
    /\ lock' = c.lock
    /\ waiters' = c.waiters
    /\ at' = c.at
    /\ rt' = c.rt
    /\ otd' = c.otd
    /\ UNCHANGED <<lvars, pvars>>

\* a caller awaits queue_update(l)
QueueUpdate(l) ==
    /\ qu[l] # "wait_lock"
    /\ qcalls < MaxQueueUpdates
    /\ ~(l \notin queued_or_processing_lights /\ at[l].pc \in {"pending", "wait_lock"})
    /\ qcalls' = qcalls + 1
    /\ IF LockFree(Ctl)
       THEN /\ CommitCtl(queue_update(Ctl, l))
            /\ qu' = [qu EXCEPT ![l] = IF l \in queued_or_processing_lights
                                       THEN "tracked" ELSE "added"]
       ELSE /\ CommitCtl(WaitLock(Ctl, <<"queue_update", l>>))
            /\ qu' = [qu EXCEPT ![l] = "wait_lock"]

\* the event loop runs the _add_task(l) coroutine
AddTaskRun(l) ==
    /\ at[l].pc = "pending"
    /\ IF LockFree(Ctl)
       THEN CommitCtl([add_task(Ctl, l) EXCEPT !.at[l].pc = "returned"])
       ELSE CommitCtl(WaitLock([Ctl EXCEPT !.at[l].pc = "wait_lock"], <<"_add_task", l>>))
    /\ UNCHANGED <<qu, qcalls>>

\* the scheduler as the program drives it: queue_update (line 63) is the only
\* caller of _add_task, and it has put the light into the set (line 62)
\* before the coroutine runs
CtlNext ==
    \E l \in Lights :
        \/ QueueUpdate(l)
        \/ AddTaskRun(l)

SpecCtl == Init /\ [][CtlNext]_vars

(***************************************************************************)
(* _add_task and _on_task_done exercised on their own.  No code of the     *)
(* program reaches the lines of _add_task behind its membership test       *)
(* (92-106): SpecCtl never starts a run task.  SpecCtlDirect adds a        *)
(* harness that schedules _add_task(l) itself for a light that is not      *)
(* tracked, as a unit test of the method would, and follows the run tasks  *)
(* this starts.  Its behaviours include those of SpecCtl, so an invariant  *)
(* of SpecCtlDirect is one of the program; a state that only SpecCtlDirect *)
(* reaches is not a state of the program and refutes nothing about it.     *)
(***************************************************************************)
\* the harness schedules _add_task(l) for a light that is not tracked
AddTaskCall(l) ==
    /\ at[l].pc \in {"none", "returned"}
    /\ l \notin queued_or_processing_lights
    /\ at' = [at EXCEPT ![l] = [pc |-> "pending", via |-> "direct"]]
    /\ UNCHANGED <<queued_or_processing_lights, task_queue, active_tasks, lock,
                   waiters, qu, rt, otd, qcalls, lvars, pvars>>

\* the run task of l ends; its done callback schedules _on_task_done
RunFinish(l) ==
    /\ rt[l] = "running"
    /\ rt' = [rt EXCEPT ![l] = "done"]
    /\ otd' = [otd EXCEPT ![l] = "pending"]
    /\ UNCHANGED <<queued_or_processing_lights, task_queue, active_tasks, lock,
                   waiters, qu, at, qcalls, lvars, pvars>>

\* the event loop runs the _on_task_done(task, l) coroutine
OnTaskDone(l) ==
    /\ otd[l] = "pending"
    /\ CommitCtl(on_task_done(Ctl, l))
    /\ UNCHANGED <<qu, qcalls>>

CtlDirectNext ==
    \E l \in Lights :
        \/ QueueUpdate(l)
        \/ AddTaskCall(l)
        \/ AddTaskRun(l)
        \/ RunFinish(l)
        \/ OnTaskDone(l)

SpecCtlDirect == Init /\ [][CtlDirectNext]_vars

(***************************************************************************)
(* Claims about the update scheduler.                                      *)
(***************************************************************************)
InQueue(l) == \E i \in 1..Len(task_queue) : task_queue[i] = l

\* C2: the number of run tasks in _active_tasks never exceeds
\* _PARALLEL_UPDATES, and every running run task is in _active_tasks.
C2_ParallelLimit ==
    /\ Cardinality(active_tasks) <= PARALLEL_UPDATES
    /\ {l \in Lights : rt[l] = "running"} \subseteq active_tasks

\* C2 witness: _PARALLEL_UPDATES run tasks are active and a further light
\* waits on the queue
C2_Witness ==
    /\ Cardinality(active_tasks) = PARALLEL_UPDATES
    /\ task_queue # <<>>

\* C4: once the _add_task that queue_update(l) scheduled for an untracked
\* light has run to its end, the light has a run task or is on the wait
\* queue.  (Violated: queue_update has put the light into the set, so the
\* membership test of _add_task returns early.)
C4_QueueUpdateStartsRun ==
    \A l \in Lights :
        (at[l].via = "queue_update" /\ at[l].pc = "returned")
            => (rt[l] # "none" \/ InQueue(l))

\* C6: a queue_update(l) for a light that is already in
\* _queued_or_processing_lights changes nothing of the scheduler's state:
\* not the set, not the wait queue, no task and no _add_task coroutine.
C6_QueueUpdateIdempotent ==
    [][\A l \in Lights :
          (QueueUpdate(l) /\ l \in queued_or_processing_lights)
              => UNCHANGED <<queued_or_processing_lights, task_queue,
                             active_tasks, at, rt, otd>>]_vars

\* C6 witness: a queue_update call has found its light already tracked
C6_Witness ==
    \E l \in Lights : qu[l] = "tracked" /\ l \in queued_or_processing_lights

(***************************************************************************)
(* Claims about the device state machine and the connection slot pool.     *)
(***************************************************************************)
AliveRuns(d) == {k \in Runs : Alive(run[d][k])}

\* the category the if/elif chain of the loop picks, from the dirty flags
TopDirty(L) ==
    IF L.dirty_state THEN "power"
    ELSE IF L.dirty_brightness THEN "brightness"
    ELSE IF L.dirty_color THEN "color"
    ELSE "none"

\* C1: len(active_devices) + len(stale_devices) never exceeds
\* MAX_ACTIVE_DEVICES.  (Violated: _add_to_active checks no capacity.)
C1_PoolCapacity ==
    Cardinality(active_devices) + Cardinality(stale_devices) <= MAX_ACTIVE_DEVICES

\* C3: a device never has two run tasks alive at the same time, whatever
\* _cancel_packets_thread returned.  (Violated: a False return is ignored.)
C3_OneRunPerDevice ==
    \A d \in Devices : Cardinality(AliveRuns(d)) <= 1

\* C7: a frame written as dirty work is of the highest-priority dirty
\* category (no brightness frame while power is dirty, no color frame while
\* power or brightness is dirty), and the first frame of a run created with
\* all three flags dirty is the power frame.
C7_PriorityOrder ==
    \A d \in Devices : \A k \in Runs :
        /\ (run[d][k].pc = "wr" /\ ~run[d][k].ka) => run[d][k].cat = TopDirty(light[d])
        /\ (run[d][k].all3 /\ run[d][k].first # "none") => run[d][k].first = "power"

\* C7 witness: a run created with all three flags dirty has written the power
\* frame first and is now writing the brightness frame
C7_Witness ==
    \E d \in Devices : \E k \in Runs :
        /\ run[d][k].all3 /\ run[d][k].first = "power"
        /\ run[d][k].pc = "wr" /\ run[d][k].cat = "brightness" /\ ~run[d][k].ka

\* a step in which run k of d completes a successful write of category cat
Written(d, cat) ==
    \E k \in Runs : /\ run[d][k].pc = "wr"
                    /\ run[d][k].cat = cat
                    /\ run'[d][k].sent = "ok"

\* C8: a dirty flag goes from true to false only in a step in which a frame
\* of that category was successfully written.  (Violated: a color that fails
\* validation clears dirty_color without any write.)
C8_DirtyClearedOnlyBySend ==
    [][\A d \in Devices :
          /\ (light[d].dirty_state /\ ~light'[d].dirty_state) => Written(d, "power")
          /\ (light[d].dirty_brightness /\ ~light'[d].dirty_brightness)
                => Written(d, "brightness")
          /\ (light[d].dirty_color /\ ~light'[d].dirty_color) => Written(d, "color")
      ]_vars

\* C9: _state, _brightness and _rgb_color change only in a step in which a
\* frame of that category was successfully written.  (Violated: they are
\* assigned before the send.)
C9_ConfirmedOnlyAfterSend ==
    [][\A d \in Devices :
          /\ light'[d].state # light[d].state => Written(d, "power")
          /\ light'[d].brightness # light[d].brightness => Written(d, "brightness")
          /\ light'[d].rgb_color # light[d].rgb_color => Written(d, "color")
      ]_vars

\* C10: a run makes at most MAX_RECONNECT_ATTEMPTS + 1 failed connection
\* attempts, and once the count exceeds MAX_RECONNECT_ATTEMPTS it is on its way
\* out: task_running is False and it is in no connection attempt.
C10_ReconnectCeiling ==
    \A d \in Devices : \A k \in Runs :
        /\ run[d][k].fails <= MAX_RECONNECT_ATTEMPTS + 1
        /\ run[d][k].fails > MAX_RECONNECT_ATTEMPTS
             => ~run[d][k].task_running /\ run[d][k].pc \in {"fail_disc", "sleep"}

\* C10 witness: a run whose connection attempts exceeded the ceiling
C10_Witness ==
    \E d \in Devices : \E k \in Runs :
        run[d][k].fails = MAX_RECONNECT_ATTEMPTS + 1 /\ run[d][k].pc = "sleep"

(***************************************************************************)
(* Claims about failure reporting, eviction and intent handling.           *)
(***************************************************************************)
\* C11: when a run that exceeded the reconnect ceiling ends, the connection
\* status is "Failed to connect" and request_update was called for that
\* status change.  (Violated: the failure branch of _connect sets the status
\* and calls no request_update, and _handle_disconnect does nothing for a
\* client of None.)
C11_AbandonReported ==
    [][\A d \in Devices : \A k \in Runs :
          (TaskExit(d, k) /\ run[d][k].fails > MAX_RECONNECT_ATTEMPTS)
              => (light[d].connection_status = "Failed to connect"
                  /\ light[d].notified)]_vars

\* C12: a keep-alive iteration (client connected, no dirty flag) that finds
\* the pool at or over capacity and takes the close branch leaves the client
\* not connected and the device in neither active_devices nor stale_devices.
\* (Violated: _handle_disconnect only disconnects a client that reports
\* itself not connected, and _add_to_stale runs after it.)
C12_Eviction ==
    [][\A d \in Devices : \A k \in Runs :
          (/\ run[d][k].pc \in {"start", "sleep"}
           /\ run[d][k].pc = "start" \/ run[d][k].task_running
           /\ run'[d][k].pc = "sleep" /\ ~run'[d][k].task_running
           /\ run'[d][k].fails = run[d][k].fails
           /\ light[d].client = "connected"
           /\ ~is_dirty(World, d)
           /\ Cardinality(active_devices) + Cardinality(stale_devices)
                  >= MAX_ACTIVE_DEVICES)
              => (/\ light'[d].client # "connected"
                  /\ d \notin active_devices' \cup stale_devices')]_vars

\* C13: a power frame is not handed to the transport as dirty work when a
\* frame with the same value, written for the same undrained intent, was
\* already inside write_gatt_char: two identical intent calls cause at most
\* one frame.  (Violated: the second call cancels the run inside its write,
\* the flag is still dirty and the new run writes the value again.)
C13_IntentIdempotent ==
    \A d \in Devices : \A k \in Runs :
        (run[d][k].pc = "wr" /\ run[d][k].cat = "power" /\ ~run[d][k].ka)
            => light[d].cancelled_power # light[d].state

\* C14: while a run that replaced an in-flight run is alive, a dirty flag
\* is cleared only by a successful write whose frame carried the value that
\* is desired now (the confirmed attribute, assigned when the frame was
\* built, equals the pending one): an intent set while a run is in flight
\* is not cleared by a frame with an older value, nor without a frame.
\* (Violated for color: an rgb_color that fails validation clears
\* dirty_color with no frame written.)
C14_NewIntentNotLost ==
    [][\A d \in Devices :
          (\E k \in Runs : Alive(run[d][k]) /\ run[d][k].took_over)
          => /\ (light[d].dirty_state /\ ~light'[d].dirty_state)
                   => (Written(d, "power") /\ light[d].state = light[d].temp_state)
             /\ (light[d].dirty_brightness /\ ~light'[d].dirty_brightness)
                   => (Written(d, "brightness")
                       /\ light[d].brightness = light[d].temp_brightness)
             /\ (light[d].dirty_color /\ ~light'[d].dirty_color)
                   => (Written(d, "color")
                       /\ light[d].rgb_color = light[d].temp_rgb_color)]_vars

\* C18: a run whose frame was rejected with a ValueError does not send that
\* category again.  (Violated: the ValueError is caught, the send returns
\* False like a failed write, and the loop sleeps and tries again with the
\* flag still dirty.)
C18_ValidationNotRetried ==
    \A d \in Devices : \A k \in Runs : ~run[d][k].retried

(***************************************************************************)
(* The frame codec: _send_bluetooth_data (light.py) and _async_send_data   *)
(* (govee_controller.py) build the same 20-byte frame and hand it to       *)
(* write_gatt_char.  One call is followed on its own, from its arguments   *)
(* to its outcome: pc is input (called), wr (inside write_gatt_char), disc *)
(* (inside client.disconnect after a failed write), done.                  *)
(* cmd is an int and payload a list of ints, so the two isinstance tests   *)
(* pass.  last_device_update is 0 for the time before the call and 1 for   *)
(* the time of its write.                                                  *)
(***************************************************************************)
MaxPayloadLen == 18

Commands == {0, 1, 4, 5, 255, 257}

ByteSeeds == {0, 1, 51, 255}

\* the payloads tried: n bytes s, 2s, 3s, ... (mod 256), and one list with
\* a value that is not a byte
PayloadOf(n, s) == [i \in 1..n |-> (s * i) % 256]

Payloads == {PayloadOf(n, s) : n \in 0..MaxPayloadLen, s \in ByteSeeds} \cup {<<256>>}

RECURSIVE XorBits(_, _, _)
\* a ^ b for bytes, bit by bit from bit i up
XorBits(a, b, i) ==
    IF i > 7 THEN 0
    ELSE (((a \div 2^i) + (b \div 2^i)) % 2) * 2^i + XorBits(a, b, i + 1)

RECURSIVE Checksum(_)
\* "for b in frame: checksum ^= b"
Checksum(f) ==
    IF f = <<>> THEN 0 ELSE XorBits(Checksum(Tail(f)), Head(f), 0)

\* the frame with room for 16 payload bytes only
BuildFrame_DropLast(cmd, payload) ==
    LET kept   == IF Len(payload) > 16 THEN 16 ELSE Len(payload)
        head   == <<51, cmd % 256>> \o SubSeq(payload, 1, kept)
        padded == head \o [i \in 1..(19 - Len(head)) |-> 0]
    IN  padded \o <<Checksum(padded) % 256>>

\* the frame without the mask on the command
BuildFrame_NoMask(cmd, payload) ==
    LET head   == <<51, cmd>> \o payload
        padded == head \o [i \in 1..(19 - Len(head)) |-> 0]
    IN  padded \o <<Checksum(padded) % 256>>

\* lines 663-675: 0x33, cmd & 0xFF, the payload, zeros up to 19 bytes, and
\* the XOR of those bytes
BuildFrame(cmd, payload) ==
    LET head   == <<51, cmd % 256>> \o payload
        padded == head \o [i \in 1..(19 - Len(head)) |-> 0]
    IN  padded \o <<Checksum(padded) % 256>>

\* bytes(payload) accepts the list
ValidBytes(payload) == \A i \in 1..Len(payload) : payload[i] >= 0 /\ payload[i] <= 255

\* _send_bluetooth_data with the length test off by one
send_bluetooth_data_LongPayload(c) ==
    IF Len(c.payload) > 18 \/ ~ValidBytes(c.payload)
    THEN [c EXCEPT !.pc = "done", !.outcome = "ValueError"]
    ELSE IF c.client = "None"
    THEN [c EXCEPT !.pc = "done", !.outcome = "False"]
    ELSE [c EXCEPT !.pc = "wr", !.frame = BuildFrame(c.cmd, c.payload)]

\* _send_bluetooth_data up to write_gatt_char (light.py:653-679): the
\* ValueError leaves the method; a client of None raises AttributeError
\* inside the try, _handle_disconnect does nothing and the result is False
send_bluetooth_data(c) ==
    IF Len(c.payload) > 17 \/ ~ValidBytes(c.payload)
    THEN [c EXCEPT !.pc = "done", !.outcome = "ValueError"]
    ELSE IF c.client = "None"
    THEN [c EXCEPT !.pc = "done", !.outcome = "False"]
    ELSE [c EXCEPT !.pc = "wr", !.frame = BuildFrame(c.cmd, c.payload)]

\* _async_send_data up to write_gatt_char (govee_controller.py:240-267):
\* line 266 writes only on a client that is set and connected; for any
\* other the handle is cleared (line 279) and the result is False
async_send_data(c) ==
    IF Len(c.payload) > 17 \/ ~ValidBytes(c.payload)
    THEN [c EXCEPT !.pc = "done", !.outcome = "ValueError"]
    ELSE IF c.client # "connected"
    THEN [c EXCEPT !.pc = "done", !.outcome = "False", !.client = "None"]
    ELSE [c EXCEPT !.pc = "wr", !.frame = BuildFrame(c.cmd, c.payload)]

\* the call, from its arguments to its first suspension
SendBluetoothData ==
    /\ codec.pc = "input"
    /\ codec' = IF codec.impl = "light" THEN send_bluetooth_data(codec)
                ELSE async_send_data(codec)
    /\ UNCHANGED <<lvars, cvars, updater, packet>>

\* write_gatt_char returns (light.py:680-684, govee_controller.py:268-270)
\* or raises; lost says whether the client then reports itself not connected.
\* light.py:685-690: _handle_disconnect leaves a connected client alone and
\* awaits the disconnect of one that is not.  govee_controller.py:271-281:
\* _async_disconnect awaits the disconnect of a client that is still
\* connected; the handle of one that is not is cleared at once.
write_returns(c, ok, lost) ==
    IF ok
    THEN [c EXCEPT !.pc = "done", !.outcome = "True", !.last_device_update = 1]
    ELSE IF c.impl = "light"
    THEN IF lost THEN [c EXCEPT !.pc = "disc", !.client = "disconnected"]
         ELSE [c EXCEPT !.pc = "done", !.outcome = "False"]
    ELSE IF lost THEN [c EXCEPT !.pc = "done", !.outcome = "False", !.client = "None"]
         ELSE [c EXCEPT !.pc = "disc"]

WriteReturns ==
    /\ codec.pc = "wr"
    /\ \E ok \in BOOLEAN, lost \in BOOLEAN :
         /\ ok => ~lost
         /\ codec' = write_returns(codec, ok, lost)
    /\ UNCHANGED <<lvars, cvars, updater, packet>>

\* client.disconnect() returns or raises.  light.py:643-649: the handle is
\* cleared only when it returned.  govee_controller.py:234-238 and 279: the
\* handle is cleared either way.  The send then returns False
disconnect_returns(c, ok) ==
    [c EXCEPT !.pc = "done", !.outcome = "False",
              !.client = IF c.impl = "light" /\ ~ok THEN @ ELSE "None"]

DisconnectReturns ==
    /\ codec.pc = "disc"
    /\ \E ok \in BOOLEAN : codec' = disconnect_returns(codec, ok)
    /\ UNCHANGED <<lvars, cvars, updater, packet>>

InitCodec ==
    /\ InitLights
    /\ driven = {"d1"}
    /\ InitController
    /\ updater = NewUpdater
    /\ packet = NoPacket
    /\ codec \in {[NoSend EXCEPT !.pc = "input", !.impl = i, !.cmd = c,
                                 !.payload = p, !.client = cl] :
                     i \in {"light", "controller"}, c \in Commands,
                     p \in Payloads, cl \in {"connected", "None"}}

CodecNext == SendBluetoothData \/ WriteReturns \/ DisconnectReturns

SpecCodec == InitCodec /\ [][CodecNext]_vars

(***************************************************************************)
(* Claims about the frame codec.                                           *)
(***************************************************************************)
\* the number of bytes of f that have bit b set
RECURSIVE BitCount(_, _)
BitCount(f, b) ==
    IF f = <<>> THEN 0 ELSE ((Head(f) \div 2^b) % 2) + BitCount(Tail(f), b)

\* C15: the frame handed to write_gatt_char is 20 bytes: 0x33, the command
\* AND 0xFF, the payload from byte 2 on, zeros up to byte 18, and a last
\* byte that is the XOR of the others (every bit is set in an even number of
\* the 20 bytes); command 0x01 with payload [0x01] has checksum 0x33.
C15_FrameFormat ==
    codec.pc = "wr" =>
        LET f == codec.frame
            n == Len(codec.payload)
        IN  /\ Len(f) = 20
            /\ f[1] = 51
            /\ f[2] = codec.cmd % 256
            /\ \A i \in 1..n : f[2 + i] = codec.payload[i]
            /\ \A i \in (n + 3)..19 : f[i] = 0
            /\ \A i \in 1..20 : f[i] >= 0 /\ f[i] <= 255
            /\ \A b \in 0..7 : BitCount(f, b) % 2 = 0
            /\ (codec.cmd = 1 /\ codec.payload = <<1>>) => f[20] = 51

\* C15 witness: a 17-byte payload under a command above 255 is inside
\* write_gatt_char, with the padding-free frame
C15_Witness ==
    /\ codec.pc = "wr"
    /\ codec.cmd = 257
    /\ Len(codec.payload) = 17
    /\ codec.frame[19] = 17

\* C16: a call with a payload longer than 17 bytes never reaches
\* write_gatt_char; it ends with the ValueError, the client and the time of
\* the last traffic as they were.
C16_LongPayloadRejected ==
    [][Len(codec.payload) > 17 =>
          /\ codec'.pc = "done" /\ codec'.outcome = "ValueError"
          /\ codec'.frame = <<>>
          /\ codec'.client = codec.client
          /\ codec'.last_device_update = codec.last_device_update]_vars

\* C16 witness: an 18-byte payload was rejected on a connected client
C16_Witness ==
    /\ Len(codec.payload) = 18
    /\ codec.pc = "done"
    /\ codec.outcome = "ValueError"
    /\ codec.client = "connected"

\* C17: command and payload can be recovered from the frame: no other valid
\* (command, payload) has the frame that is being written.  (Violated: the
\* frame does not carry the payload's length, so a payload and the same
\* payload followed by zero bytes have one frame.)
C17_RoundTrip ==
    (codec.pc = "wr" /\ codec.cmd <= 255) =>
        \A c \in {x \in Commands : x <= 255} :
            \A p \in {q \in Payloads : Len(q) <= 17 /\ ValidBytes(q)} :
                BuildFrame(c, p) = codec.frame
                    => (c = codec.cmd /\ p = codec.payload)

\* a payload as the frame holds it: followed by zeros up to 17 bytes
Padded(p) == p \o [i \in 1..(17 - Len(p)) |-> 0]

\* C17 as amended: the command and the zero-padded payload can be recovered
\* from the frame: a valid (command, payload) with the frame that is being
\* written has the same command and the same payload up to trailing zeros.
C17_RoundTripPadded ==
    (codec.pc = "wr" /\ codec.cmd <= 255) =>
        \A c \in {x \in Commands : x <= 255} :
            \A p \in {q \in Payloads : Len(q) <= 17 /\ ValidBytes(q)} :
                BuildFrame(c, p) = codec.frame
                    => (c = codec.cmd /\ Padded(p) = Padded(codec.payload))

\* C17 witness: a full 17-byte payload is being written, and so is (in
\* another call) a payload that shares its frame with a shorter one
C17_Witness ==
    /\ codec.pc = "wr"
    /\ codec.cmd = 5
    /\ Len(codec.payload) = 17
    /\ codec.payload[17] # 0
    /\ SubSeq(codec.frame, 3, 19) = codec.payload

\* C19: when an iteration ends after a failed write, the connection has been
\* closed and the handle cleared, so that the retry connects anew.
\* (Violated: _handle_disconnect leaves a client alone that still reports
\* itself connected, and the retry writes on the old connection.)
C19_ForceCloseAfterFailedWrite ==
    \A d \in Devices : \A k \in Runs :
        (run[d][k].pc = "sleep" /\ run[d][k].sent = "fail")
            => light[d].client = "None"

\* C20: the backoff delays a run has slept after its failed connection
\* attempts (line 497) never decrease from one to the next, there are at most
\* MAX_RECONNECT_ATTEMPTS of them, and a failed attempt that is followed by no
\* backoff delay has reached the ceiling: the run is abandoned.  With the
\* ceiling of 0 the first failure is that attempt, and no delay is slept.
C20_BackoffMonotone ==
    \A d \in Devices : \A k \in Runs :
        LET t == run[d][k] IN
        /\ \A i \in 1..(Len(t.delays) - 1) : t.delays[i] <= t.delays[i + 1]
        /\ Len(t.delays) <= MAX_RECONNECT_ATTEMPTS
        /\ t.fails > Len(t.delays) => ~t.task_running

\* C20 witness: the first connection attempt of a run has failed and the run
\* sleeps its last second, abandoned, having slept no backoff delay
C20_Witness ==
    \E d \in Devices : \E k \in Runs :
        /\ run[d][k].pc = "sleep"
        /\ run[d][k].fails = 1
        /\ run[d][k].delays = <<>>
        /\ ~run[d][k].task_running
        /\ light[d].reconnect = 1

(***************************************************************************)
(* ThrottledUpdater (throttled_updater.py) on its own.  Time is counted in *)
(* whole seconds by Tick.  update_task is the task request_update created  *)
(* last: "created" until the event loop first runs it, "sleep" inside the  *)
(* asyncio.sleep of line 34, "done" after line 43.  The callback           *)
(* (update_light_state, light.py 185-194) has no await and is run to its   *)
(* end inside the step that invokes it.  The task also records what it was *)
(* given: delay is the value calculate_delay returned, since the elapsed   *)
(* time it was computed from, calls the request_update calls made from the *)
(* creation of the task until it was done, invocations the calls of the    *)
(* callback.                                                               *)
(***************************************************************************)
MaxRequests == 3

\* lines 45-50 without the floor at zero
calculate_delay_NoFloor(u, time_since_last_update) ==
    LET update_delay == MIN_UPDATE_SECONDS
                            + u.successive_updates * ADDITIONAL_DELAY_PER_UPDATE
        capped == IF update_delay < MAX_UPDATE_SECONDS
                  THEN update_delay ELSE MAX_UPDATE_SECONDS
    IN  capped - time_since_last_update

\* lines 45-50
calculate_delay(u, time_since_last_update) ==
    LET update_delay == MIN_UPDATE_SECONDS
                            + u.successive_updates * ADDITIONAL_DELAY_PER_UPDATE
        capped == IF update_delay < MAX_UPDATE_SECONDS
                  THEN update_delay ELSE MAX_UPDATE_SECONDS
        remaining_delay == capped - time_since_last_update
    IN  IF remaining_delay > 0 THEN remaining_delay ELSE 0

\* lines 36-43 with the counter reset only after more than max_update
manage_update_fire_StrictGap(u) ==
    [u EXCEPT !.successive_updates = IF u.elapsed > MAX_UPDATE_SECONDS
                                     THEN 0 ELSE @ + 1,
              !.update_task.invocations = @ + 1,
              !.update_task.pc = "done",
              !.elapsed = 0,
              !.pending = @ - 1]

\* lines 36-43: the counter, the callback, last_update = now, task done
manage_update_fire(u) ==
    [u EXCEPT !.successive_updates = IF u.elapsed >= MAX_UPDATE_SECONDS
                                     THEN 0 ELSE @ + 1,
              !.update_task.invocations = @ + 1,
              !.update_task.pc = "done",
              !.elapsed = 0,
              !.pending = @ - 1]

\* lines 27-43 without the sleep of lines 33-34
manage_update_start_NoSleep(u) ==
    LET update_delay == calculate_delay(u, u.elapsed)
    IN  manage_update_fire([u EXCEPT !.update_task.delay = update_delay,
                                     !.update_task.since = u.elapsed])

\* lines 27-34, and 36-43 as well when there is nothing to wait for
manage_update_start(u) ==
    LET update_delay == calculate_delay(u, u.elapsed)
        t == [u EXCEPT !.update_task.delay = update_delay,
                       !.update_task.since = u.elapsed]
    IN  IF update_delay > 0
        THEN [t EXCEPT !.update_task.pc = "sleep",
                       !.update_task.remaining = update_delay]
        ELSE manage_update_fire(t)

\* lines 20-23 without the test of line 22
updater_request_update_AlwaysSpawns(u) ==
    [u EXCEPT !.update_task = [NoUpdateTask EXCEPT !.pc = "created", !.calls = 1],
              !.pending = @ + 1]

\* lines 20-23
updater_request_update(u) ==
    IF u.update_task.pc \in {"none", "done"}
    THEN [u EXCEPT !.update_task = [NoUpdateTask EXCEPT !.pc = "created",
                                                        !.calls = 1],
                   !.pending = @ + 1]
    ELSE [u EXCEPT !.update_task.calls = @ + 1]

\* a caller asks for a notification
RequestUpdate ==
    /\ updater.update_task.calls < MaxRequests
           \/ updater.update_task.pc \in {"none", "done"}
    /\ updater' = updater_request_update(updater)
    /\ UNCHANGED <<lvars, cvars, codec, packet>>

\* the event loop runs the new task up to its first await or to its end
ManageUpdateStart ==
    /\ updater.update_task.pc = "created"
    /\ updater' = manage_update_start(updater)
    /\ UNCHANGED <<lvars, cvars, codec, packet>>

\* asyncio.sleep returns, at the earliest when the delay is over
ManageUpdateWake ==
    /\ updater.update_task.pc = "sleep"
    /\ updater.update_task.remaining = 0
    /\ updater' = manage_update_fire(updater)
    /\ UNCHANGED <<lvars, cvars, codec, packet>>

\* one second passes
Tick ==
    /\ updater' = [updater EXCEPT
           !.elapsed = IF @ < MAX_UPDATE_SECONDS THEN @ + 1 ELSE @,
           !.update_task.remaining = IF @ > 0 THEN @ - 1 ELSE 0]
    /\ UNCHANGED <<lvars, cvars, codec, packet>>

InitUpdater ==
    /\ InitLights
    /\ driven = {"d1"}
    /\ InitController
    /\ codec = NoSend
    /\ updater = NewUpdater
    /\ packet = NoPacket

UpdaterNext == RequestUpdate \/ ManageUpdateStart \/ ManageUpdateWake \/ Tick

SpecUpdater == InitUpdater /\ [][UpdaterNext]_vars

\* the step in which the update task invokes the callback
Fires ==
    /\ updater.update_task.pc \in {"created", "sleep"}
    /\ updater'.update_task.pc = "done"

\* C21: at most one notification task is pending at any time; however many
\* request_update calls were made while a task was pending, the callback is
\* invoked exactly once for that task (not before the task fires, once when
\* it has), and the step that invokes it resets last_update.
C21_Coalescing ==
    /\ [](/\ updater.pending <= 1
          /\ updater.update_task.pc \in {"created", "sleep"}
                 => (updater.pending = 1 /\ updater.update_task.invocations = 0)
          /\ updater.update_task.pc = "done"
                 => (updater.pending = 0 /\ updater.update_task.invocations = 1))
    /\ [][Fires => updater'.elapsed = 0]_vars

\* a task that was asked for MaxRequests times has fired
C21_Witness ==
    /\ updater.update_task.pc = "done"
    /\ updater.update_task.calls = MaxRequests
    /\ updater.update_task.delay > 0

\* max(0, min(MAX_UPDATE_SECONDS, MIN_UPDATE_SECONDS + s * ADDITIONAL_DELAY_PER_UPDATE) - e)
ThrottleDelay(s, e) ==
    LET lo == MIN_UPDATE_SECONDS + s * ADDITIONAL_DELAY_PER_UPDATE
        m  == IF MAX_UPDATE_SECONDS <= lo THEN MAX_UPDATE_SECONDS ELSE lo
    IN  IF m - e >= 0 THEN m - e ELSE 0

\* C22: a task that has started with the successive count s and the elapsed
\* time e waits max(0, min(MAX_UPDATE_SECONDS, MIN_UPDATE_SECONDS
\* + s * ADDITIONAL_DELAY_PER_UPDATE) - e) seconds: that is the delay it asks
\* asyncio.sleep for, it has that much left when it starts, and it invokes the
\* callback at once when the delay is zero.
C22_ThrottleDelay ==
    [][updater.update_task.pc = "created" /\ updater'.update_task.pc # "created"
           => LET d == ThrottleDelay(updater.successive_updates, updater.elapsed)
              IN  /\ updater'.update_task.delay = d
                  /\ updater'.update_task.remaining = d
                  /\ (updater'.update_task.pc = "done") = (d = 0)]_vars

\* a task has waited a delay that was shortened by the time already elapsed
C22_Witness ==
    /\ updater.update_task.pc = "done"
    /\ updater.update_task.since > 0
    /\ updater.update_task.delay > 0
    /\ updater.successive_updates > 2

\* C23: a notification that fires less than MAX_UPDATE_SECONDS after the
\* previous one adds one to successive_updates; one that fires at least
\* MAX_UPDATE_SECONDS after the previous one, the very first included, sets
\* it to zero.
C23_SuccessiveUpdates ==
    [][Fires => updater'.successive_updates =
                    IF updater.elapsed < MAX_UPDATE_SECONDS
                    THEN updater.successive_updates + 1 ELSE 0]_vars

\* the counter was reset after having counted notifications
C23_Witness ==
    /\ updater.update_task.pc = "done"
    /\ updater.update_task.since < MAX_UPDATE_SECONDS
    /\ updater.update_task.delay > 2
    /\ updater.successive_updates = 0
    /\ updater.elapsed = 0

(***************************************************************************)
(* The payloads of _send_brightness and _send_rgb_color (light.py 282-384) *)
(* on their own.                                                           *)
(***************************************************************************)
\* _send_brightness (lines 282-290): the packet handed to _send_bluetooth_data
brightness_packet(p) ==
    [p EXCEPT !.pc = "sent", !.cmd = 4,
              !.payload = <<scale_brightness(p.brightness,
                                ModelInfo_get(p.model, "brightness_max"))>>]

\* _send_rgb_color (lines 298-379): nothing is sent for a component outside
\* 0..255, else the packet handed to _send_bluetooth_data
rgb_color_packet(p) ==
    LET as_white == /\ p.control_mode = "TEMPERATURE"
                    /\ is_in_range(p.temperature,
                                   ModelInfo_get(p.model, "min_kelvin"),
                                   ModelInfo_get(p.model, "max_kelvin"))
        rgb      == IF as_white THEN <<255, 255, 255>> ELSE p.rgb_color
        TK       == IF as_white THEN p.temperature ELSE 0
        led_mode == ModelInfo_get(p.model, "led_mode")
    IN  IF \E i \in 1..3 : rgb[i] < 0 \/ rgb[i] > 255
        THEN [p EXCEPT !.pc = "invalid"]
        ELSE [p EXCEPT !.pc = "sent", !.cmd = 5,
                 !.payload =
                     IF led_mode = MODE_1501
                     THEN <<led_mode, 1, rgb[1], rgb[2], rgb[3],
                            (TK \div 256) % 256, TK % 256, 0, 0, 0, 255, 255, 0>>
                     ELSE <<led_mode, rgb[1], rgb[2], rgb[3],
                            (TK \div 256) % 256, TK % 256, 0, 0, 0>>]

\* _send_brightness is called
SendBrightness ==
    /\ packet.pc = "call" /\ packet.fn = "brightness"
    /\ packet' = brightness_packet(packet)
    /\ UNCHANGED <<lvars, cvars, codec, updater>>

\* _send_rgb_color is called
SendRgbColor ==
    /\ packet.pc = "call" /\ packet.fn = "rgb_color"
    /\ packet' = rgb_color_packet(packet)
    /\ UNCHANGED <<lvars, cvars, codec, updater>>

\* the brightnesses a light is given, in hundredths: the ints 0..255 of the
\* brightness argument and the floats of brightness_pct 0..100
BrightnessSamples ==
    {100 * b : b \in 0..255} \cup {255 * brightness_pct : brightness_pct \in 0..100}

\* colours and temperatures a light is given
RgbSamples == {<<0, 0, 0>>, <<255, 128, 1>>, <<18, 52, 86>>, <<256, 0, 0>>}
KelvinSamples == {1000, 2700, 4000, 6500}

InitPacket ==
    /\ InitLights
    /\ driven = {"d1"}
    /\ InitController
    /\ codec = NoSend
    /\ updater = NewUpdater
    /\ packet \in
           {[NoPacket EXCEPT !.pc = "call", !.fn = "brightness", !.model = m,
                             !.brightness = b] :
                m \in ModelNames, b \in BrightnessSamples}
           \cup
           {[NoPacket EXCEPT !.pc = "call", !.fn = "rgb_color", !.model = m,
                             !.rgb_color = c, !.control_mode = cm,
                             !.temperature = k] :
                m \in ModelNames, c \in RgbSamples,
                cm \in {"COLOR", "TEMPERATURE"}, k \in KelvinSamples}

PacketNext == SendBrightness \/ SendRgbColor

SpecPacket == InitPacket /\ [][PacketNext]_vars

\* the brightness maximum the table gives a model
TableMax(model) ==
    IF model \in {"H6008", "H6046", "H6072", "H6076"} THEN 100 ELSE 255

\* C24: for every caller brightness b in 0..255 (the whole numbers the
\* brightness argument takes) and every model maximum M of the table, the
\* brightness payload is the single byte floor(b * M / 255), which lies in
\* 0..M; b = 200 with M = 100 gives 78.  The brightness is held in
\* hundredths, so the byte is floor(hundredths * M / 25500).
C24_BrightnessScaling ==
    (packet.pc = "sent" /\ packet.fn = "brightness" /\ packet.brightness % 100 = 0) =>
        LET M == TableMax(packet.model)
        IN  /\ packet.payload = <<(packet.brightness * M) \div 25500>>
            /\ packet.payload[1] \in 0..M
            /\ (packet.brightness = 20000 /\ M = 100) => packet.payload = <<78>>

\* brightness 200 was scaled for a model whose maximum is 100
C24_Witness ==
    /\ packet.pc = "sent" /\ packet.fn = "brightness"
    /\ packet.model = "H6008" /\ packet.brightness = 20000
    /\ packet.payload = <<78>>

\* C25: the colour payload of a model in the extended mode (MODE_1501) is
\* [ledMode, 0x01, R, G, B, KelvinHigh, KelvinLow, 0, 0, 0, 0xFF, 0x74], that
\* of any other mode [ledMode, R, G, B, KelvinHigh, KelvinLow, 0, 0, 0].
\* (Violated: the extended payload ends in 0xFF, 0xFF, 0x00 and is 13 bytes.)
C25_ColorPayloadLayout ==
    (packet.pc = "sent" /\ packet.fn = "rgb_color") =>
        LET pl == packet.payload
            n  == Len(pl)
        IN  IF pl[1] = MODE_1501
            THEN /\ n = 12
                 /\ pl[2] = 1
                 /\ pl[6] * 256 + pl[7] \in {0, packet.temperature}
                 /\ SubSeq(pl, 8, 12) = <<0, 0, 0, 255, 116>>
            ELSE /\ n = 9
                 /\ pl[5] * 256 + pl[6] \in {0, packet.temperature}
                 /\ SubSeq(pl, 7, 9) = <<0, 0, 0>>

\* C27: every device that is a member of active_devices or of stale_devices
\* holds an open connection: its client is set and connected.
\* (Violated: after the disconnect callback has removed the device and
\* cleared the client, the keep-alive iteration of a light that is on still
\* calls _add_to_stale.)
C27_PooledIsConnected ==
    \A d \in active_devices \cup stale_devices : light[d].client = "connected"

\* the step in which the _cancel_packets_thread of an intent call on d
\* returns, from its sleep or at once, and the call creates its run task
CancelReturns(d) ==
    /\ driven' = driven
    /\ call'[d].pc = "idle"
    /\ call[d].pc = "cancelling" \/ intents' # intents
    /\ run'[d] # run[d]

\* C28: _cancel_packets_thread always returns after a bounded number of
\* passes: it never makes more than max_attempts cancel attempts, and it
\* makes no further pass once its sleeps have used up the timeout.  When it
\* returns False the run task it was cancelling is not done; when it returns
\* True the task has ended or there was none, _keep_alive_task is None and
\* the reconnect count is 0.
C28_CancelBounded ==
    /\ [](\A d \in Devices :
             /\ call[d].attempts <= max_attempts
             /\ call[d].attempts > 1
                    => SleptTenths(call[d].attempts - 1) < max_timeout * 10)
    /\ [][\A d \in Devices :
            CancelReturns(d) =>
                LET kat == light[d].keep_alive_task
                IN  /\ call'[d].ret \in {"True", "False"}
                    /\ call'[d].ret = "False" =>
                           (kat # 0 /\ run[d][kat].pc # "done"
                                    /\ run'[d][kat].pc # "done")
                    /\ call'[d].ret = "True" =>
                           /\ kat = 0 \/ run[d][kat].pc = "done"
                           /\ call'[d].kat = 0
                           /\ light'[d].reconnect = 0]_vars

\* a cancel gave up on a run task that did not end
C28_Witness ==
    \E d \in Devices :
        /\ call[d].ret = "False"
        /\ call[d].kat # 0
        /\ run[d][call[d].kat].pc # "done"

(***************************************************************************)
(* The light under a fair event loop and a transport that does not fail    *)
(* for ever: every coroutine that is ready to run is run, every transport  *)
(* call returns, and a connect or a write that is attempted again and      *)
(* again succeeds at some attempt.                                         *)
(***************************************************************************)
Step(A) == A /\ UNCHANGED <<cvars, pvars>>

SpecLive ==
    /\ Spec
    /\ \A d \in Devices :
          /\ WF_vars(Step(CancelWake(d)))
          /\ WF_vars(Step(DisconnectedCallback(d)))
          /\ \A k \in Runs :
                /\ WF_vars(Step(TaskStart(d, k)))
                /\ WF_vars(Step(LoopIteration(d, k)))
                /\ WF_vars(Step(TaskExit(d, k)))
                /\ WF_vars(Step(DisconnectDone(d, k)))
                /\ WF_vars(Step(TaskCancelled(d, k)))
                /\ WF_vars(Step(EstablishConnection(d, k)))
                /\ WF_vars(Step(WriteDone(d, k)))
                /\ SF_vars(Step(EstablishConnection(d, k))
                               /\ light'[d].client = "connected")
                /\ SF_vars(Step(WriteDone(d, k)) /\ run'[d][k].sent = "ok")

\* C29: once no new intent arrives (every call of the host has been made and
\* has returned), a run of a light that was not removed, if alive,
\* eventually terminates, and when it has terminated all three dirty flags
\* are false.
\* (Violated: a brightness that does not fit a byte is retried for ever, and
\* a run that gives the device up after a failed connect ends with its
\* flags still dirty.)
C29_RunTerminates ==
    \A d \in Devices : \A k \in Runs :
        (/\ Alive(run[d][k])
         /\ d \in driven
         /\ intents = MaxIntents
         /\ call[d].pc = "idle")
            ~> (~Alive(run[d][k]) /\ ~is_dirty(World, d))

\* C30: each device is a member of at most one of queued_devices,
\* active_devices and stale_devices.
C30_PoolsExclusive ==
    /\ queued_devices \cap active_devices = {}
    /\ queued_devices \cap stale_devices = {}
    /\ active_devices \cap stale_devices = {}

\* every pool holds a device or has held this one: a light that was queued
\* and active is stale while the other light is active
C30_Witness ==
    \E d \in stale_devices : \E e \in active_devices :
        /\ d # e
        /\ light[d].state = "True"
        /\ light[d].connection_status = "Connected"

\* C32: when a run task ends by leaving its while loop (normally, by
\* abandonment, or after the stale-connection test told it to close), the
\* device is in neither queued_devices nor active_devices.  (Violated:
\* _handle_disconnect does nothing for a client that is still connected.)
C32_EndedRunLeavesPools ==
    [][\A d \in Devices : \A k \in Runs :
          TaskExit(d, k) => (d \notin queued_devices' /\ d \notin active_devices')]_vars

\* C33: successive_updates never exceeds 59, and the delay a notification
\* task asks asyncio.sleep for, like the time it has left to wait, never
\* exceeds MAX_UPDATE_SECONDS.
C33_ThrottleBounded ==
    /\ updater.successive_updates <= 59
    /\ updater.update_task.delay <= MAX_UPDATE_SECONDS
    /\ updater.update_task.remaining <= MAX_UPDATE_SECONDS

\* the counter stands at 59 and the next task waits the full
\* MAX_UPDATE_SECONDS, asked for right after the previous notification
C33_Witness ==
    /\ updater.successive_updates = 59
    /\ updater.update_task.pc = "sleep"
    /\ updater.update_task.since = 0
    /\ updater.update_task.delay = MAX_UPDATE_SECONDS

\* the attributes of a model's table entry
ModelKeys == {"led_mode", "brightness_max", "min_kelvin", "max_kelvin"}

\* C34: when a payload has been built for a light, every attribute that
\* ModelInfo.get looks up for the light's model is that model's own table
\* value if the table has the model, and the "default" entry's value only
\* if it has not.  (Violated: a table value of 0 is taken as missing.)
C34_ModelLookup ==
    packet.pc = "sent" =>
        \A key \in ModelKeys :
            ModelInfo_get(packet.model, key) =
                IF packet.model \in DOMAIN ModelTable
                THEN ModelTable[packet.model][key]
                ELSE ModelTable["default"][key]

====
